---- MODULE Spec2Model ----
(***************************************************************************)
(* Model of the community booking simulation                               *)
(* (src/examples/ex_5_community_follow_up/model_classes.py):               *)
(* the Scenario diaries, the three bookers, the PatientReferral pathway    *)
(* and the AssessmentReferralModel arrivals generator, run by the simpy    *)
(* event queue.  One action is one env.step(): the head event of the queue *)
(* is popped and the process waiting on it runs up to its next yield.      *)
(*                                                                         *)
(* Caseload is held in units of 0.5 (the code adds and subtracts 1 and     *)
(* 0.5), so existing_caseload[c] = 3 stands for a caseload of 1.5.         *)
(* None is modelled as -1.                                                 *)
(***************************************************************************)
EXTENDS Integers, Sequences, FiniteSets, TLC

\* ---------------------------------------------------------------- bounds
\* run_length handed to Scenario (days)
RunLength == 15
\* cap on the total of the Poisson samples of arrival_dist over a run
MaxReferrals == 2
\* arrival_dist samples 0 after this day
LastArrivalDay == 1
\* cap on int(Lognormal sample), the number of follow-ups of a patient
MaxFollowUps == 2

\* ------------------------------------------------------ program constants
LOW_PRIORITY_MIN_WAIT == 7
HIGH_PRIORITY_MIN_WAIT == 2
\* HighPriorityPooledBooker.__init__ sets min_wait to the literal 1
HIGH_BOOKER_MIN_WAIT == 1
LOW_INTENSITY_FOLLOW_UP_TARGET_INTERVAL == 14
HIGH_INTENSITY_FOLLOW_UP_TARGET_INTERVAL == 7
\* Scenario's default warm_up
WARM_UP == 0
\* simpy event priorities: env.process schedules Initialize as URGENT,
\* env.timeout schedules Timeout as NORMAL
URGENT == 0
NORMAL == 1

None == -1

\* clinicians are the columns 0, 1 of the input tables
Clinics == {0, 1}
WeekDays == 0 .. 4

\* ------------------------------------------------------------ input tables
\* Each scenario is a set of input tables handed to Scenario(): shifts
\* (weekly_slots), prop_carve_out in percent, partial_pooling, caseload.
FullPooling == [i \in Clinics |-> [j \in Clinics |-> 1]]
IdentityPooling == [i \in Clinics |-> [j \in Clinics |-> IF i = j THEN 1 ELSE 0]]

\* clinician 0 has 2 slots every day, clinician 1 has none on weekday 1
ShiftsA == [d \in WeekDays |-> [c \in Clinics |-> IF c = 1 /\ d = 1 THEN 0 ELSE 2]]
\* one slot per clinician per day
ShiftsD == [d \in WeekDays |-> [c \in Clinics |-> 1]]
\* clinician 0 has one slot every day, clinician 1 has two
ShiftsM == [d \in WeekDays |-> [c \in Clinics |-> IF c = 0 THEN 1 ELSE 2]]

Scenarios ==
  { [name |-> "pooled", shifts |-> ShiftsA, prop |-> 50, pooling |-> FullPooling,
     caseload |-> [c \in Clinics |-> 0]],
    [name |-> "busy", shifts |-> ShiftsA, prop |-> 50, pooling |-> FullPooling,
     caseload |-> [c \in Clinics |-> IF c = 0 THEN 18 ELSE 14]],
    [name |-> "unpooled", shifts |-> ShiftsA, prop |-> 50, pooling |-> IdentityPooling,
     caseload |-> [c \in Clinics |-> 0]],
    [name |-> "carved", shifts |-> ShiftsD, prop |-> 60, pooling |-> FullPooling,
     caseload |-> [c \in Clinics |-> 0]],
    [name |-> "busy_unpooled", shifts |-> ShiftsA, prop |-> 50, pooling |-> IdentityPooling,
     caseload |-> [c \in Clinics |-> IF c = 0 THEN 18 ELSE 14]],
    [name |-> "mixed", shifts |-> ShiftsM, prop |-> 60, pooling |-> FullPooling,
     caseload |-> [c \in Clinics |-> 0]] }

\* ------------------------------------------------------------------ state
VARIABLES
  now,               \* env.now
  queue,             \* env._queue: scheduled events (time, priority, eid, process)
  eid,               \* env._eid: the next event id
  status,            \* "running", "stopped" (until reached) or "crashed" (exception)
  gen_t,             \* generate_arrivals: the loop variable t
  weekly_slots,      \* Scenario.weekly_slots
  pooling_np,        \* Scenario.pooling_np
  prop_carve_out,    \* Scenario.prop_carve_out, in percent
  carve_out_slots,   \* Scenario.carve_out_slots
  available_slots,   \* Scenario.available_slots
  bookings,          \* Scenario.bookings
  existing_caseload, \* Scenario.existing_caseload[1:], in units of 0.5
  patients,          \* the PatientReferral objects, by identifier <<t, i>>
  referrals,         \* AssessmentReferralModel.referrals
  event_log,         \* AssessmentReferralModel.event_log
  calls,             \* history: the find_slot/book_slot calls made so far
  rerun_log          \* history: event_log of a second run from the same seeds

vars == <<now, queue, eid, status, gen_t, weekly_slots, pooling_np, prop_carve_out, carve_out_slots,
          available_slots, bookings, existing_caseload, patients, referrals,
          event_log, calls, rerun_log>>

\* ------------------------------------------------------------ Scenario
\* numpy round(): half to even, of n/d
RoundHalfEven(n, d) ==
  LET q == n \div d
      r == n % d
  IN IF 2 * r < d THEN q
     ELSE IF 2 * r > d THEN q + 1
     ELSE IF q % 2 = 0 THEN q ELSE q + 1

\* mutant: the product is truncated, not rounded
priority_template_truncated(slots, prop) == ((slots * prop) \div 100) % 256

\* (capacity_template * prop_carve_out).round().astype(np.uint8)
\* for one cell of the template
priority_template(slots, prop) == RoundHalfEven(slots * prop, 100) % 256

\* open_template = capacity_template - priority_template, for one cell
open_template(slots, prop) == slots - priority_template(slots, prop)

\* the template followed by int(run_length*1.5) more copies of it
DiaryRows(run_length) == 5 * (1 + (3 * run_length) \div 2)
Days == 0 .. DiaryRows(RunLength) - 1

create_carve_out(shifts, prop) ==
  [d \in Days |-> [c \in Clinics |-> priority_template(shifts[d % 5][c], prop)]]

create_slots(shifts, prop) ==
  [d \in Days |-> [c \in Clinics |-> open_template(shifts[d % 5][c], prop)]]

create_bookings ==
  [d \in Days |-> [c \in Clinics |-> 0]]

\* ------------------------------------------------------------ event queue
Event(time, prio, id, kind, pid) ==
  [time |-> time, prio |-> prio, eid |-> id, kind |-> kind, pid |-> pid]

\* heap order of env._queue: (time, priority, eid)
Before(e, f) ==
  \/ e.time < f.time
  \/ e.time = f.time /\ e.prio < f.prio
  \/ e.time = f.time /\ e.prio = f.prio /\ e.eid < f.eid

QueueHead == CHOOSE e \in queue : \A f \in queue \ {e} : Before(e, f)

NoPid == <<None, None>>

Init ==
  /\ \E s \in Scenarios :
       /\ weekly_slots = s.shifts
       /\ pooling_np = s.pooling
       /\ prop_carve_out = s.prop
       /\ carve_out_slots = create_carve_out(s.shifts, s.prop)
       /\ available_slots = create_slots(s.shifts, s.prop)
       /\ existing_caseload = s.caseload
  /\ bookings = create_bookings
  /\ now = 0
  \* AssessmentReferralModel.__init__ starts generate_arrivals (eid 0);
  \* run() schedules the until event, URGENT, at run_length (eid 1)
  /\ queue = { Event(0, URGENT, 0, "gen", NoPid),
               Event(RunLength, URGENT, 1, "stop", NoPid) }
  /\ eid = 2
  /\ status = "running"
  /\ gen_t = 0
  /\ patients = [x \in {} |-> x]
  /\ referrals = <<>>
  /\ event_log = <<>>
  /\ calls = <<>>
  /\ rerun_log = <<>>

\* ------------------------------------------------------------ helpers
RECURSIVE SumOver(_, _)
SumOver(row, S) ==
  IF S = {} THEN 0
  ELSE LET c == CHOOSE x \in S : TRUE IN row[c] + SumOver(row, S \ {c})

MinOf(S) == CHOOSE x \in S : \A y \in S : x <= y

\* ------------------------------------------------------------ bookers
\* mutant: the pooling matrix is ignored
pooled_clinics_all(clinic_id) == Clinics

\* np.where(self.args.pooling_np[clinic_id] == 1)[0]
pooled_clinics(clinic_id) == {j \in Clinics : pooling_np[clinic_id][j] = 1}

\* clinic_options[limit_clinic_choice] with a list of one bool per clinic:
\* numpy raises IndexError unless the list is as long as clinic_options
mask_raises(clinic_id) ==
  Cardinality(pooled_clinics(clinic_id)) # Cardinality(Clinics)

masked_options(clinic_id, limit_clinic_choice) ==
  {j \in pooled_clinics(clinic_id) : limit_clinic_choice[j]}

\* mutant: the window starts at t, not at t + min_wait
LowPriority_first_day_no_wait(t, min_wait, options) ==
  LET rows == {d \in Days : d >= t /\ SumOver(available_slots[d], options) > 0}
  IN IF rows = {} THEN None ELSE MinOf(rows)

\* LowPriorityPooledBooker.find_slot: the set of (best_t, best_clinic_idx) it
\* may return (random.randint picks among the clinics with a slot on the best
\* day); the empty set when it raises IndexError
LowPriority_first_day(t, min_wait, options) ==
  LET rows == {d \in Days : d >= t + min_wait /\ SumOver(available_slots[d], options) > 0}
  IN IF rows = {} THEN None ELSE MinOf(rows)

\* mutant: any eligible clinic is returned for the best day, with or without
\* a slot on it
LowPriority_find_slot_any(t, min_wait, clinic_id, limit_clinic_choice) ==
  IF mask_raises(clinic_id) THEN {}
  ELSE LET options == masked_options(clinic_id, limit_clinic_choice)
           best == LowPriority_first_day(t, min_wait, options)
       IN IF best = None THEN {}
          ELSE {<<best, c>> : c \in options}

LowPriority_find_slot(t, min_wait, clinic_id, limit_clinic_choice) ==
  IF mask_raises(clinic_id) THEN {}
  ELSE LET options == masked_options(clinic_id, limit_clinic_choice)
           best == LowPriority_first_day(t, min_wait, options)
       IN IF best = None THEN {}
          ELSE {<<best, c>> : c \in {j \in options : available_slots[best][j] > 0}}

\* mutant: the window starts on day t itself
HighPriority_first_day_today(t, min_wait, options) ==
  LET rows == {d \in Days : d >= t /\
                 \E j \in options : carve_out_slots[d][j] + available_slots[d][j] > 0}
  IN IF rows = {} THEN None ELSE MinOf(rows)

\* HighPriorityPooledBooker.find_slot, called without a mask:
\* clinic_options[None] adds an axis, so sum(axis=1) runs over that axis and
\* a day qualifies when any pooled clinic has carve_out + available > 0
HighPriority_first_day(t, min_wait, options) ==
  LET rows == {d \in Days : d >= t + min_wait /\
                 \E j \in options : carve_out_slots[d][j] + available_slots[d][j] > 0}
  IN IF rows = {} THEN None ELSE MinOf(rows)

HighPriority_find_slot(t, min_wait, clinic_id) ==
  LET options == pooled_clinics(clinic_id)
      best == HighPriority_first_day(t, min_wait, options)
  IN IF best = None THEN {}
     ELSE {<<best, c>> : c \in {j \in options :
                 carve_out_slots[best][j] + available_slots[best][j] > 0}}

\* RepeatBooker.find_slot: np.argmax(clinic_slots > 0) is 0 when no day has a
\* slot; on an empty slice it raises ValueError (the empty set here)
Repeat_find_slot(t, min_wait, clinic_id) ==
  LET window == {d \in Days : d >= t + min_wait}
      free == {d \in window : available_slots[d][clinic_id] > 0}
  IN IF window = {} THEN {}
     ELSE IF free = {} THEN {<<t + min_wait, clinic_id>>}
     ELSE {<<MinOf(free), clinic_id>>}

\* mutant: the booking is not counted
LowPriority_book_slot_uncounted(booking_t, clinic_id) ==
  /\ available_slots' = [available_slots EXCEPT ![booking_t][clinic_id] = @ - 1]
  /\ UNCHANGED <<bookings, carve_out_slots>>

\* LowPriorityPooledBooker.book_slot
LowPriority_book_slot(booking_t, clinic_id) ==
  /\ available_slots' = [available_slots EXCEPT ![booking_t][clinic_id] = @ - 1]
  /\ bookings' = [bookings EXCEPT ![booking_t][clinic_id] = @ + 1]
  /\ UNCHANGED carve_out_slots

\* mutant: the public slot is taken as well as the carve-out slot
HighPriority_book_slot_both(booking_t, clinic_id) ==
  /\ IF carve_out_slots[booking_t][clinic_id] > 0
     THEN carve_out_slots' = [carve_out_slots EXCEPT ![booking_t][clinic_id] = @ - 1]
     ELSE UNCHANGED carve_out_slots
  /\ available_slots' = [available_slots EXCEPT ![booking_t][clinic_id] = @ - 1]
  /\ bookings' = [bookings EXCEPT ![booking_t][clinic_id] = @ + 1]

\* mutant: the public slot is taken first
HighPriority_pool_public_first(booking_t, clinic_id) ==
  IF available_slots[booking_t][clinic_id] > 0 THEN "available" ELSE "carve_out"

\* HighPriorityPooledBooker.book_slot: the pool it takes the slot from
HighPriority_pool(booking_t, clinic_id) ==
  IF carve_out_slots[booking_t][clinic_id] > 0 THEN "carve_out" ELSE "available"

HighPriority_book_slot(booking_t, clinic_id) ==
  /\ IF HighPriority_pool(booking_t, clinic_id) = "carve_out"
     THEN /\ carve_out_slots' = [carve_out_slots EXCEPT ![booking_t][clinic_id] = @ - 1]
          /\ UNCHANGED available_slots
     ELSE /\ available_slots' = [available_slots EXCEPT ![booking_t][clinic_id] = @ - 1]
          /\ UNCHANGED carve_out_slots
  /\ bookings' = [bookings EXCEPT ![booking_t][clinic_id] = @ + 1]

\* mutant: the follow-up takes a carve-out slot first, as a high priority
\* booking does
Repeat_book_slot_carve(booking_t, clinic_id) ==
  /\ IF carve_out_slots[booking_t][clinic_id] > 0
     THEN /\ carve_out_slots' = [carve_out_slots EXCEPT ![booking_t][clinic_id] = @ - 1]
          /\ UNCHANGED available_slots
     ELSE /\ available_slots' = [available_slots EXCEPT ![booking_t][clinic_id] = @ - 1]
          /\ UNCHANGED carve_out_slots
  /\ bookings' = [bookings EXCEPT ![booking_t][clinic_id] = @ + 1]

\* RepeatBooker.book_slot
Repeat_book_slot(booking_t, clinic_id) ==
  /\ available_slots' = [available_slots EXCEPT ![booking_t][clinic_id] = @ - 1]
  /\ bookings' = [bookings EXCEPT ![booking_t][clinic_id] = @ + 1]
  /\ UNCHANGED carve_out_slots

\* check_for_availability: available_caseload per clinician, in units of 0.5
available_caseload(c) ==
  2 * SumOver([d \in WeekDays |-> weekly_slots[d][c]], WeekDays) - existing_caseload[c] - 2

clinicians_with_slots == Cardinality({c \in Clinics : available_caseload(c) > 0})

\* [True if c > 0 else False for c in available_caseload]
clinic_mask == [c \in Clinics |-> available_caseload(c) > 0]

\* ------------------------------------------------------------ records
LogRec(pid, pathway, event, time, home, booked, type, wait, interval, fu, intended) ==
  [patient |-> pid, pathway |-> pathway, event |-> event, time |-> time,
   home_clinic |-> home, booked_clinic |-> booked, type |-> type, wait |-> wait,
   interval |-> interval, follow_up |-> fu, follow_ups_intended |-> intended]

\* a record of one find_slot call and the book_slot call that follows it
\* (day = None when find_slot raised); free is the number of free public
\* slots of the eligible clinicians on the returned day, before booking
CallRec(pid, booker, t, min_wait, at, day, clinic, pool, free) ==
  [pid |-> pid, booker |-> booker, t |-> t, min_wait |-> min_wait, now |-> at,
   day |-> day, clinic |-> clinic, pool |-> pool, free |-> free]

\* ------------------------------------------------------------ kernel
Running == status = "running" /\ queue # {}

\* the head event is popped and the clock moves to its time
Pop(h) == (queue \ {h})

\* a process that raises fails its Process event, which is scheduled NORMAL
\* at the current time; env.step() re-raises it when it is popped
FailEvent(h, pid) == Event(h.time, NORMAL, eid, "fail", pid)

\* second run from the same seeds: it is followed while its log agrees with
\* this run's, and stays at its first differing log afterwards
Rerun(add) == IF rerun_log = event_log THEN event_log \o add ELSE rerun_log

\* ------------------------------------------------------------ arrivals
\* what the distributions of one referral give: clinic_dist, the clinic's
\* ref_out_dist and (only if accepted) priority_dist
RefSamples ==
  {[clinic |-> c, out |-> o, high |-> h] :
     c \in Clinics, o \in {0, 1}, h \in {0, 1}} \ {[clinic |-> c, out |-> 1, high |-> 1] : c \in Clinics}

\* referrals generated so far: accepted patients and those referred out
NumReferrals ==
  Cardinality(DOMAIN patients)
  + Cardinality({k \in 1 .. Len(event_log) : event_log[k].event = "referred_out"})

NewPatient(t, smp) ==
  [referral_t |-> t, home_clinic |-> smp.clinic, booked_clinic |-> smp.clinic,
   priority |-> IF smp.high = 1 THEN 2 ELSE 1,
   min_wait |-> IF smp.high = 1 THEN HIGH_BOOKER_MIN_WAIT ELSE LOW_PRIORITY_MIN_WAIT,
   waiting_time |-> None, follow_up_intensity |-> None,
   pc |-> "start", best_t |-> None, num_appts |-> None, i |-> None, interval |-> None]

\* mutant: the depart record of a referred-out patient is stamped two days on
ReferredOutRecs_late(t, i, smp, at) ==
  << LogRec(<<t, i>>, 0, "arrival", at, smp.clinic, None, "", None, None, None, None),
     LogRec(<<t, i>>, 0, "referred_out", at, smp.clinic, None, "", None, None, None, None),
     LogRec(<<t, i>>, 0, "depart", at + 2, smp.clinic, None, "", None, None, None, None) >>

\* the three records logged for a referral that is referred out
ReferredOutRecs(t, i, smp, at) ==
  << LogRec(<<t, i>>, 0, "arrival", at, smp.clinic, None, "", None, None, None, None),
     LogRec(<<t, i>>, 0, "referred_out", at, smp.clinic, None, "", None, None, None, None),
     LogRec(<<t, i>>, 0, "depart", at + 1, smp.clinic, None, "", None, None, None, None) >>

\* the inner loop of generate_arrivals over referrals i .. n-1 of day t:
\* the records it logs, in order
RECURSIVE ArrivalLog(_, _, _, _)
ArrivalLog(t, smp, i, at) ==
  IF i >= Len(smp) THEN <<>>
  ELSE (IF smp[i + 1].out = 1 THEN ReferredOutRecs(t, i, smp[i + 1], at) ELSE <<>>)
       \o ArrivalLog(t, smp, i + 1, at)

\* ... the patients it retains, in order (only after warm-up)
RECURSIVE ArrivalKept(_, _, _, _)
ArrivalKept(t, smp, i, at) ==
  IF i >= Len(smp) THEN <<>>
  ELSE (IF smp[i + 1].out = 0 /\ at > WARM_UP THEN << <<t, i>> >> ELSE <<>>)
       \o ArrivalKept(t, smp, i + 1, at)

\* mutant: a pathway is started for every referral, referred out or not
Accepted_all(smp) == 0 .. Len(smp) - 1

Accepted(smp) == {i \in 0 .. Len(smp) - 1 : smp[i + 1].out = 0}

\* mutant: the processes of a day are started in decreasing index order
InitEid_reversed(smp, i) == eid + Cardinality({j \in Accepted(smp) : j > i})

\* eid of the Initialize event of referral i: env.process is called in order
InitEid(smp, i) == eid + Cardinality({j \in Accepted(smp) : j < i})

generate_arrivals ==
  /\ Running
  /\ QueueHead.kind = "gen"
  /\ LET h == QueueHead
         t == gen_t
         cap == IF t > LastArrivalDay THEN 0 ELSE MaxReferrals - NumReferrals
     IN \E n \in 0 .. cap : \E smp \in [1 .. n -> RefSamples] :
          /\ now' = h.time
          /\ patients' = [pid \in DOMAIN patients \cup {<<t, i>> : i \in Accepted(smp)} |->
                            IF pid \in DOMAIN patients THEN patients[pid]
                            ELSE NewPatient(t, smp[pid[2] + 1])]
          /\ queue' = Pop(h)
                      \cup {Event(h.time, URGENT, InitEid(smp, i), "init", <<t, i>>) : i \in Accepted(smp)}
                      \cup {Event(h.time + 1, NORMAL, eid + Cardinality(Accepted(smp)), "gen", NoPid)}
          /\ eid' = eid + Cardinality(Accepted(smp)) + 1
          /\ gen_t' = t + 1
          /\ referrals' = referrals \o ArrivalKept(t, smp, 0, h.time)
          /\ event_log' = event_log \o ArrivalLog(t, smp, 0, h.time)
          /\ rerun_log' = Rerun(ArrivalLog(t, smp, 0, h.time))
          /\ UNCHANGED <<status, weekly_slots, pooling_np, prop_carve_out, carve_out_slots, available_slots,
                         bookings, existing_caseload, calls>>

\* mutant: the until event is processed and the run goes on
stop_run_goes_on ==
  /\ Running
  /\ QueueHead.kind = "stop"
  /\ now' = QueueHead.time
  /\ queue' = Pop(QueueHead)
  /\ UNCHANGED <<eid, status, gen_t, weekly_slots, pooling_np, prop_carve_out, carve_out_slots,
                 available_slots, bookings, existing_caseload, patients, referrals, event_log,
                 calls, rerun_log>>

\* env.run(until=run_length): the until event ends the run
stop_run ==
  /\ Running
  /\ QueueHead.kind = "stop"
  /\ now' = QueueHead.time
  /\ queue' = Pop(QueueHead)
  /\ status' = "stopped"
  /\ UNCHANGED <<eid, gen_t, weekly_slots, pooling_np, prop_carve_out, carve_out_slots, available_slots,
                 bookings, existing_caseload, patients, referrals, event_log, calls, rerun_log>>

\* env.step() re-raises the exception of a failed process: the run is aborted
raise_failure ==
  /\ Running
  /\ QueueHead.kind = "fail"
  /\ now' = QueueHead.time
  /\ queue' = Pop(QueueHead)
  /\ status' = "crashed"
  /\ UNCHANGED <<eid, gen_t, weekly_slots, pooling_np, prop_carve_out, carve_out_slots, available_slots,
                 bookings, existing_caseload, patients, referrals, event_log, calls, rerun_log>>

\* ------------------------------------------------------------ pathway
\* the process of patient p is resumed by the head event
Resumes(p, kind, pc) ==
  /\ Running
  /\ QueueHead.kind = kind
  /\ QueueHead.pid = p
  /\ patients[p].pc = pc

\* mutant: the timeout fires without delay
Timeout_at_once(h, delay, p) == Event(h.time, NORMAL, eid, "timeout", p)

\* yield self.env.timeout(delay)
Timeout(h, delay, p) == Event(h.time + delay, NORMAL, eid, "timeout", p)

\* what random.randint gives when it returns 0: the first clinic option
FirstChoice(res) == CHOOSE r \in res : \A q \in res : r[2] <= q[2]

\* mutant: the two records are logged the other way round
ArrivalRecs_exchanged(p, pat, at) ==
  << LogRec(p, pat.priority, "waiting_appointment_to_be_scheduled", at, pat.home_clinic,
            None, "", None, None, None, None),
     LogRec(p, pat.priority, "arrival", at, pat.home_clinic, None, "", None, None, None, None) >>

\* mutant: the arrival record is not logged
ArrivalRecs_unlogged(p, pat, at) ==
  << LogRec(p, pat.priority, "waiting_appointment_to_be_scheduled", at, pat.home_clinic,
            None, "", None, None, None, None) >>

ArrivalRecs(p, pat, at) ==
  << LogRec(p, pat.priority, "arrival", at, pat.home_clinic, None, "", None, None, None, None),
     LogRec(p, pat.priority, "waiting_appointment_to_be_scheduled", at, pat.home_clinic,
            None, "", None, None, None, None) >>

\* mutant: the record carries the home clinic as booked_clinic
BookedRec_home(p, pat, at, clinic) ==
  LogRec(p, pat.priority, "appointment_booked_waiting", at, pat.home_clinic, pat.home_clinic,
         "", None, None, None, None)

BookedRec(p, pat, at, clinic) ==
  LogRec(p, pat.priority, "appointment_booked_waiting", at, pat.home_clinic, clinic, "",
         None, None, None, None)

\* mutant: a find_slot that fails has taken a public slot on the first day
\* of its window
Raise_slot_taken(p, h, pat, add, call) ==
  /\ patients' = [patients EXCEPT ![p] = [pat EXCEPT !.pc = "failed"]]
  /\ queue' = Pop(h) \cup {FailEvent(h, p)}
  /\ eid' = eid + 1
  /\ event_log' = event_log \o add
  /\ rerun_log' = Rerun(add)
  /\ calls' = Append(calls, call)
  /\ available_slots' =
       [available_slots EXCEPT ![call.t + call.min_wait][pat.home_clinic] = @ - 1]
  /\ UNCHANGED <<carve_out_slots, bookings>>

\* the process raises: nothing more of the step happens
Raise(p, h, pat, add, call) ==
  /\ patients' = [patients EXCEPT ![p] = [pat EXCEPT !.pc = "failed"]]
  /\ queue' = Pop(h) \cup {FailEvent(h, p)}
  /\ eid' = eid + 1
  /\ event_log' = event_log \o add
  /\ rerun_log' = Rerun(add)
  /\ calls' = Append(calls, call)
  /\ UNCHANGED <<carve_out_slots, available_slots, bookings>>

\* the delay of "yield self.env.timeout(best_t - self.referral_t)"
assessment_delay(best_t, referral_t) == best_t - referral_t

\* execute() up to its first yield: the arrival records and, for priority 2,
\* the assessment booking
execute_start(p) ==
  /\ Resumes(p, "init", "start")
  /\ LET h == QueueHead
         pat == patients[p]
         hdr == ArrivalRecs(p, pat, h.time)
         res == HighPriority_find_slot(pat.referral_t, pat.min_wait, pat.home_clinic)
     IN /\ now' = h.time
        /\ IF pat.priority = 2
           THEN IF res = {}
                THEN /\ Raise(p, h, pat, hdr,
                              CallRec(p, "high", pat.referral_t, pat.min_wait, h.time, None, None, "", None))
                     /\ UNCHANGED existing_caseload
                ELSE \E r \in res :
                       /\ HighPriority_book_slot(r[1], r[2])
                       /\ event_log' = event_log \o hdr \o <<BookedRec(p, pat, h.time, r[2])>>
                       /\ rerun_log' = Rerun(hdr \o <<BookedRec(p, pat, h.time, FirstChoice(res)[2])>>)
                       /\ patients' = [patients EXCEPT ![p] =
                            [pat EXCEPT !.booked_clinic = r[2], !.best_t = r[1], !.pc = "assessment"]]
                       /\ queue' = Pop(h) \cup {Timeout(h, assessment_delay(r[1], pat.referral_t), p)}
                       /\ eid' = eid + 1
                       /\ calls' = Append(calls, CallRec(p, "high", pat.referral_t, pat.min_wait,
                                           h.time, r[1], r[2], HighPriority_pool(r[1], r[2]),
                                           None))
                       /\ UNCHANGED existing_caseload
           ELSE /\ event_log' = event_log \o hdr
                /\ rerun_log' = Rerun(hdr)
                /\ patients' = [patients EXCEPT ![p] = [pat EXCEPT !.pc = "leapfrog"]]
                /\ queue' = Pop(h) \cup {Timeout(h, 1, p)}
                /\ eid' = eid + 1
                /\ UNCHANGED <<carve_out_slots, available_slots, bookings, existing_caseload, calls>>
        /\ UNCHANGED <<status, gen_t, weekly_slots, pooling_np, prop_carve_out, referrals>>

\* the caseload after "existing_caseload[1:].iloc[booked_clinic] += 1"
caseload_on_booking(clinic) ==
  [existing_caseload EXCEPT ![clinic] = @ + 2]

\* priority 1: find_slot(t, home_clinic, mask) with the booker's min_wait at
\* min_wait, then book_slot, the booked record and the caseload increment
low_priority_booking(p, h, pat, t, min_wait) ==
  LET res == LowPriority_find_slot(t, min_wait, pat.home_clinic, clinic_mask)
      pat1 == [pat EXCEPT !.min_wait = min_wait]
  IN IF res = {}
     THEN /\ Raise(p, h, pat1, <<>>, CallRec(p, "low", t, min_wait, h.time, None, None, "", None))
          /\ UNCHANGED existing_caseload
     ELSE \E r \in res :
            /\ LowPriority_book_slot(r[1], r[2])
            /\ event_log' = Append(event_log, BookedRec(p, pat, h.time, r[2]))
            /\ rerun_log' = Rerun(<<BookedRec(p, pat, h.time, FirstChoice(res)[2])>>)
            /\ existing_caseload' = caseload_on_booking(r[2])
            /\ patients' = [patients EXCEPT ![p] =
                 [pat1 EXCEPT !.booked_clinic = r[2], !.best_t = r[1], !.pc = "assessment"]]
            /\ queue' = Pop(h) \cup {Timeout(h, assessment_delay(r[1], pat.referral_t), p)}
            /\ eid' = eid + 1
            /\ calls' = Append(calls, CallRec(p, "low", t, min_wait, h.time, r[1], r[2], "available",
                                SumOver(available_slots[r[1]], masked_options(pat.home_clinic, clinic_mask))))

\* mutant: min_wait is not restored before the pathway waits a day
wait_a_day_unrestored(p, h, pat) ==
  /\ patients' = [patients EXCEPT ![p] =
       [pat EXCEPT !.pc = "recheck", !.min_wait = LOW_PRIORITY_MIN_WAIT - 1]]
  /\ queue' = Pop(h) \cup {Timeout(h, 1, p)}
  /\ eid' = eid + 1
  /\ UNCHANGED <<carve_out_slots, available_slots, bookings, existing_caseload,
                 event_log, rerun_log, calls>>

\* no clinician has headroom: yield self.env.timeout(1) and check again
wait_a_day(p, h, pat) ==
  /\ patients' = [patients EXCEPT ![p] = [pat EXCEPT !.pc = "recheck"]]
  /\ queue' = Pop(h) \cup {Timeout(h, 1, p)}
  /\ eid' = eid + 1
  /\ UNCHANGED <<carve_out_slots, available_slots, bookings, existing_caseload,
                 event_log, rerun_log, calls>>

\* priority 1 after the anti-leapfrog day: min_wait is lowered by one and the
\* first check for headroom is made; the slot is searched from referral_t
execute_first_attempt(p) ==
  /\ Resumes(p, "timeout", "leapfrog")
  /\ LET h == QueueHead
         pat == patients[p]
     IN /\ now' = h.time
        /\ IF clinicians_with_slots > 0
           THEN low_priority_booking(p, h, pat, pat.referral_t, pat.min_wait - 1)
           ELSE wait_a_day(p, h, pat)
        /\ UNCHANGED <<status, gen_t, weekly_slots, pooling_np, prop_carve_out, referrals>>

\* priority 1 in the admission loop: the daily re-check; the slot is
\* searched from env.now with the restored min_wait
execute_recheck(p) ==
  /\ Resumes(p, "timeout", "recheck")
  /\ LET h == QueueHead
         pat == patients[p]
     IN /\ now' = h.time
        /\ IF clinicians_with_slots = 0
           THEN wait_a_day(p, h, pat)
           ELSE low_priority_booking(p, h, pat, h.time, pat.min_wait)
        /\ UNCHANGED <<status, gen_t, weekly_slots, pooling_np, prop_carve_out, referrals>>

\* ------------------------------------------------------------ follow-ups
\* follow_up_dist, intensity_dist and int(num_follow_up_dist sample)
FollowUpSamples ==
  {[y |-> 0, intensity |-> None, n |-> None]}
  \cup {[y |-> 1, intensity |-> k, n |-> m] : k \in {0, 1}, m \in 0 .. MaxFollowUps}

\* mutant: the two adjustments are exchanged
caseload_reconciled_exchanged(pat, intensity) ==
  IF intensity = 0 /\ pat.priority = 2
  THEN [existing_caseload EXCEPT ![pat.booked_clinic] = @ + 1]
  ELSE IF intensity = 1 /\ pat.priority = 1
  THEN [existing_caseload EXCEPT ![pat.booked_clinic] = @ - 1]
  ELSE existing_caseload

\* "Adjust caseload values if expected pathway not follows"
caseload_reconciled(pat, intensity) ==
  IF intensity = 0 /\ pat.priority = 2
  THEN [existing_caseload EXCEPT ![pat.booked_clinic] = @ - 1]
  ELSE IF intensity = 1 /\ pat.priority = 1
  THEN [existing_caseload EXCEPT ![pat.booked_clinic] = @ + 1]
  ELSE existing_caseload

\* mutant: no discharge decrement for a patient without follow-up appointments
caseload_discharged_if_seen(cl, pat) ==
  IF pat.num_appts = 0 THEN cl
  ELSE IF pat.follow_up_intensity = 1
  THEN [cl EXCEPT ![pat.booked_clinic] = @ - 2]
  ELSE IF pat.follow_up_intensity = 0
  THEN [cl EXCEPT ![pat.booked_clinic] = @ - 1]
  ELSE cl

\* leaving the system: the caseload file after the discharge decrement
caseload_discharged(cl, pat) ==
  IF pat.follow_up_intensity = 1
  THEN [cl EXCEPT ![pat.booked_clinic] = @ - 2]
  ELSE IF pat.follow_up_intensity = 0
  THEN [cl EXCEPT ![pat.booked_clinic] = @ - 1]
  ELSE cl

\* mutant: follow-ups may be booked from the current day on
repeat_min_wait_zero(intensity) == 0

\* RepeatBooker.__init__: min_wait = ideal_frequency - 1
repeat_min_wait(intensity) ==
  (IF intensity = 1 THEN HIGH_INTENSITY_FOLLOW_UP_TARGET_INTERVAL
   ELSE LOW_INTENSITY_FOLLOW_UP_TARGET_INTERVAL) - 1

\* the head of "for i in range(num_appts)" at index i, with the records add
\* already logged in this step and the caseload cl: book follow-up i and
\* wait for it, or leave the loop, adjust the caseload and log depart
next_follow_up(p, h, pat, cl, add, i) ==
  IF pat.follow_up_intensity # None /\ i < pat.num_appts
  THEN LET mw == repeat_min_wait(pat.follow_up_intensity)
           res == Repeat_find_slot(h.time, mw, pat.booked_clinic)
       IN IF res = {}
          THEN /\ Raise(p, h, [pat EXCEPT !.i = i], add,
                        CallRec(p, "repeat", h.time, mw, h.time, None, None, "", None))
               /\ existing_caseload' = cl
          ELSE \E r \in res :
                 /\ Repeat_book_slot(r[1], r[2])
                 /\ event_log' = event_log \o add \o
                      << LogRec(p, pat.priority, "follow_up_appointment_booked_waiting", h.time,
                                pat.home_clinic, pat.booked_clinic, "", None, None, i, pat.num_appts) >>
                 /\ rerun_log' = Rerun(add \o
                      << LogRec(p, pat.priority, "follow_up_appointment_booked_waiting", h.time,
                                pat.home_clinic, pat.booked_clinic, "", None, None, i, pat.num_appts) >>)
                 /\ existing_caseload' = cl
                 /\ patients' = [patients EXCEPT ![p] =
                      [pat EXCEPT !.best_t = r[1], !.i = i, !.interval = r[1] - h.time,
                                  !.pc = "follow_up"]]
                 /\ queue' = Pop(h) \cup {Timeout(h, r[1] - h.time, p)}
                 /\ eid' = eid + 1
                 /\ calls' = Append(calls, CallRec(p, "repeat", h.time, mw, h.time, r[1], r[2], "available",
                                     available_slots[r[1]][r[2]]))
  ELSE /\ existing_caseload' = caseload_discharged(cl, pat)
       /\ event_log' = event_log \o add \o
            << LogRec(p, pat.priority, "depart", h.time + 1, pat.home_clinic, None, "",
                      None, None, None, None) >>
       /\ rerun_log' = Rerun(add \o
            << LogRec(p, pat.priority, "depart", h.time + 1, pat.home_clinic, None, "",
                      None, None, None, None) >>)
       /\ patients' = [patients EXCEPT ![p] = [pat EXCEPT !.pc = "done"]]
       \* the generator returns: its Process event takes an event id
       /\ queue' = Pop(h)
       /\ eid' = eid + 1
       /\ UNCHANGED <<carve_out_slots, available_slots, bookings, calls>>

\* the assessment is attended: waiting time, the follow-up samples, the
\* caseload reconciliation and the first follow-up booking (or discharge)
execute_assessment(p) ==
  /\ Resumes(p, "timeout", "assessment")
  /\ LET h == QueueHead
         pat == patients[p]
         wait == pat.best_t - pat.referral_t
     IN /\ now' = h.time
        /\ \E smp \in FollowUpSamples :
             next_follow_up(p, h,
               [pat EXCEPT !.waiting_time = wait, !.follow_up_intensity = smp.intensity,
                           !.num_appts = smp.n],
               IF smp.y = 1 THEN caseload_reconciled(pat, smp.intensity) ELSE existing_caseload,
               << LogRec(p, pat.priority, "have_appointment", h.time, pat.home_clinic,
                         pat.booked_clinic, "assessment", wait, None, None, None) >>,
               0)
        /\ UNCHANGED <<status, gen_t, weekly_slots, pooling_np, prop_carve_out, referrals>>

\* a follow-up is attended; the next one is booked, or the patient departs
execute_follow_up(p) ==
  /\ Resumes(p, "timeout", "follow_up")
  /\ LET h == QueueHead
         pat == patients[p]
     IN /\ now' = h.time
        /\ next_follow_up(p, h, pat, existing_caseload,
             << LogRec(p, pat.priority, "have_appointment", h.time, pat.home_clinic,
                       pat.booked_clinic, "follow-up", None, pat.interval, pat.i, pat.num_appts) >>,
             pat.i + 1)
        /\ UNCHANGED <<status, gen_t, weekly_slots, pooling_np, prop_carve_out, referrals>>

\* ------------------------------------------------------------ specification
Next ==
  \/ generate_arrivals
  \/ stop_run
  \/ raise_failure
  \/ \E p \in DOMAIN patients : execute_start(p)
  \/ \E p \in DOMAIN patients : execute_first_attempt(p)
  \/ \E p \in DOMAIN patients : execute_recheck(p)
  \/ \E p \in DOMAIN patients : execute_assessment(p)
  \/ \E p \in DOMAIN patients : execute_follow_up(p)

Spec == Init /\ [][Next]_vars

\* ------------------------------------------------------------ claims
\* the diaries as Scenario.__init__ built them
initial_available(d, c) == open_template(weekly_slots[d % 5][c], prop_carve_out)
initial_carve_out(d, c) == priority_template(weekly_slots[d % 5][c], prop_carve_out)

\* the calls that booked a slot (find_slot returned)
Booked == {k \in 1 .. Len(calls) : calls[k].day # None}

\* C1: no overbooking: every cell of available and of carve_out is >= 0 at
\* every time, after any sequence of assessment and follow-up bookings.
C1_NoOverbooking ==
  \A d \in Days : \A c \in Clinics :
    available_slots[d][c] >= 0 /\ carve_out_slots[d][c] >= 0

\* C2: slot conservation: bookings starts at zero with both pools as built,
\* and every step that changes a diary adds exactly one to bookings of one
\* cell and takes exactly one unit from exactly one of the two pools of that
\* cell; so bookings[d,c] always equals the units taken from the two pools.
C2_SlotConservation ==
  /\ bookings = create_bookings
  /\ [][IF bookings' = bookings
        THEN available_slots' = available_slots /\ carve_out_slots' = carve_out_slots
        ELSE \E d \in Days : \E c \in Clinics :
               /\ bookings' = [bookings EXCEPT ![d][c] = @ + 1]
               /\ \/ /\ available_slots' = [available_slots EXCEPT ![d][c] = @ - 1]
                     /\ carve_out_slots' = carve_out_slots
                  \/ /\ carve_out_slots' = [carve_out_slots EXCEPT ![d][c] = @ - 1]
                     /\ available_slots' = available_slots]_vars

\* C2 witness: all three bookers have booked, from the carve-out pool and
\* from the public pool
C2_Witness ==
  /\ \E k \in Booked : calls[k].booker = "high" /\ calls[k].pool = "carve_out"
  /\ \E k \in Booked : calls[k].booker = "low"
  /\ \E k \in Booked : calls[k].booker = "repeat"

\* C3: carve-out policy: a step changes a cell of carve_out only if it is a
\* booking by HighPriorityPooledBooker; the bookings of
\* LowPriorityPooledBooker and RepeatBooker leave carve_out unchanged.
C3_CarveOutPolicy ==
  [][carve_out_slots' # carve_out_slots =>
       /\ Len(calls') = Len(calls) + 1
       /\ calls'[Len(calls')].booker = "high"]_vars

\* C3 witness: a priority-1 booker has booked a cell whose carve-out pool
\* was not empty
C3_Witness ==
  /\ \E k \in Booked : calls[k].booker = "low"
                       /\ carve_out_slots[calls[k].day][calls[k].clinic] > 0
  /\ \E k \in Booked : calls[k].booker = "repeat"
                       /\ carve_out_slots[calls[k].day][calls[k].clinic] > 0

\* C4: pool restriction: every booking (assessment or follow-up) is with a
\* clinician pooled with the patient's home clinic; with the identity
\* pooling matrix that is the home clinic itself.
C4_PoolRestriction ==
  \A k \in Booked :
    /\ pooling_np[patients[calls[k].pid].home_clinic][calls[k].clinic] = 1
    /\ pooling_np = IdentityPooling => calls[k].clinic = patients[calls[k].pid].home_clinic

\* C4 witness: under identity pooling an assessment was booked on a day on
\* which the other clinician had a free slot too, and a follow-up was booked
C4_Witness ==
  /\ pooling_np = IdentityPooling
  /\ \E k \in Booked : /\ calls[k].booker = "high"
                       /\ \E c \in Clinics \ {calls[k].clinic} :
                            initial_available(calls[k].day, c) > 0
  /\ \E k \in Booked : calls[k].booker = "repeat"

\* C5: determinism: a second run from the same seed vector, configuration
\* and input tables produces the same event log, tie-breaks included.
C5_Determinism ==
  rerun_log = event_log

\* the patient of a call or of a log record
ReferralT(pid) == patients[pid].referral_t

\* C6 (as claimed): every find_slot(t, ...) returns a day >= t + min_wait,
\* with min_wait 7 for LowPriorityPooledBooker, 1 for
\* HighPriorityPooledBooker and ideal_frequency - 1 for RepeatBooker.
C6_MinimumWait ==
  \A k \in Booked :
    calls[k].day >= calls[k].t +
      (CASE calls[k].booker = "low" -> LOW_PRIORITY_MIN_WAIT
         [] calls[k].booker = "high" -> 1
         [] calls[k].booker = "repeat" ->
              repeat_min_wait(patients[calls[k].pid].follow_up_intensity))

\* C6 (amended): every find_slot(t, ...) that returns gives a day >= t + the
\* booker's min_wait at the call, which is 6 at a priority-1 first attempt
\* (searched from referral_t), 7 at an attempt after waiting in the admission
\* loop (searched from env.now), 1 for HighPriorityPooledBooker and
\* ideal_frequency - 1 for RepeatBooker.
C6_MinimumWaitAtCall ==
  \A k \in Booked :
    /\ calls[k].day >= calls[k].t + calls[k].min_wait
    /\ calls[k].min_wait =
         (CASE calls[k].booker = "low" ->
                 IF calls[k].t = ReferralT(calls[k].pid)
                 THEN LOW_PRIORITY_MIN_WAIT - 1 ELSE LOW_PRIORITY_MIN_WAIT
            [] calls[k].booker = "high" -> 1
            [] calls[k].booker = "repeat" ->
                 repeat_min_wait(patients[calls[k].pid].follow_up_intensity))
    /\ calls[k].booker = "low" =>
         calls[k].t = IF calls[k].now = ReferralT(calls[k].pid) + 1
                      THEN ReferralT(calls[k].pid) ELSE calls[k].now

\* C6 witness: a first attempt booked the day referral_t + 6, and a
\* follow-up was booked on the first day its min_wait allows
C6_Witness ==
  /\ \E k \in Booked : /\ calls[k].booker = "low"
                       /\ calls[k].day = ReferralT(calls[k].pid) + 6
  /\ \E k \in Booked : /\ calls[k].booker = "repeat"
                       /\ calls[k].day = calls[k].t + calls[k].min_wait

HaveAppointments == {k \in 1 .. Len(event_log) : event_log[k].event = "have_appointment"}

\* C7: every have_appointment record of a patient is preceded in the log by
\* an appointment_booked_waiting record of that patient with the same
\* booked_clinic and a time no later, and it is at least 1 day (priority 2)
\* or 6 days (priority 1) after referral_t.
C7_BookedBeforeAttended ==
  \A k \in HaveAppointments :
    LET e == event_log[k]
    IN /\ \E j \in 1 .. k - 1 :
            /\ event_log[j].event = "appointment_booked_waiting"
            /\ event_log[j].patient = e.patient
            /\ event_log[j].booked_clinic = e.booked_clinic
            /\ event_log[j].time <= e.time
       /\ e.pathway = 2 => e.time - ReferralT(e.patient) >= 1
       /\ e.pathway = 1 => e.time - ReferralT(e.patient) >= 6

\* C7 witness: a priority-2 patient attended the day after referral and a
\* priority-1 patient has attended
C7_Witness ==
  /\ \E k \in HaveAppointments :
       event_log[k].pathway = 2 /\ event_log[k].time = ReferralT(event_log[k].patient) + 1
  /\ \E k \in HaveAppointments : event_log[k].pathway = 1

\* C8: the assessment is attended on the day that was booked: the
\* have_appointment record of type assessment carries the day find_slot
\* returned and book_slot booked, and its wait is that time less referral_t.
C8_AttendedOnBookedDay ==
  \A k \in HaveAppointments :
    event_log[k].type = "assessment" =>
      \A j \in Booked :
        (calls[j].pid = event_log[k].patient /\ calls[j].booker # "repeat") =>
          /\ event_log[k].time = calls[j].day
          /\ event_log[k].wait = event_log[k].time - ReferralT(event_log[k].patient)

\* the event that resumes patient p is the next one to be processed
AtHead(p) == Running /\ QueueHead.kind = "timeout" /\ QueueHead.pid = p

\* C9: anti-leapfrog across days: when a priority-1 patient makes its first
\* booking attempt, no priority-1 patient who arrived on an earlier day and is
\* waiting in the admission loop still has its re-check of that day to come.
C9_AntiLeapfrog ==
  \A q \in DOMAIN patients :
    (AtHead(q) /\ patients[q].pc = "leapfrog") =>
      ~ \E w \in DOMAIN patients :
          /\ patients[w].pc = "recheck"
          /\ patients[w].referral_t < patients[q].referral_t
          /\ \E e \in queue : e.pid = w /\ e.time = QueueHead.time

\* the calls of first attempts: LowPriorityPooledBooker searched from referral_t
FirstAttempts ==
  {k \in 1 .. Len(calls) : calls[k].booker = "low" /\ calls[k].t = ReferralT(calls[k].pid)}

\* C10: same-day ordering: priority-1 patients accepted on the same day make
\* their first attempt in increasing index order; when the first found only
\* one free eligible public slot on its day, the other books a later day.
C10_SameDayOrder ==
  /\ \A q \in DOMAIN patients :
       (AtHead(q) /\ patients[q].pc = "leapfrog") =>
         \A w \in DOMAIN patients :
           (patients[w].priority = 1 /\ w[1] = q[1] /\ w[2] < q[2]) =>
             patients[w].pc \notin {"start", "leapfrog"}
  /\ \A j \in FirstAttempts : \A k \in FirstAttempts :
       (j < k /\ calls[j].pid[1] = calls[k].pid[1]) =>
         /\ calls[j].pid[2] < calls[k].pid[2]
         /\ (calls[j].free = 1 /\ calls[k].day # None) => calls[k].day > calls[j].day

\* C10 witness: two patients of one day booked at their first attempts, the
\* first taking the only free slot of its day
C10_Witness ==
  \E j \in FirstAttempts : \E k \in FirstAttempts :
    /\ j < k
    /\ calls[j].pid[1] = calls[k].pid[1]
    /\ calls[j].free = 1
    /\ calls[k].day # None

\* the call appended by this step, when the step made a find_slot call
NewCall == calls'[Len(calls')]
MadeCall(booker) == Len(calls') = Len(calls) + 1 /\ NewCall.booker = booker

\* C11: admission control: for any pooling matrix, a priority-1 find_slot
\* searches exactly the clinicians pooled with the home clinic that have
\* headroom > 0 at that moment: it books the first day of the window on which
\* they have a free public slot, with one of them that has a slot that day.
C11_AdmissionControl ==
  [][MadeCall("low") =>
       LET home == patients[NewCall.pid].home_clinic
           elig == {j \in Clinics : pooling_np[home][j] = 1 /\ available_caseload(j) > 0}
           days == {d \in Days : d >= NewCall.t + NewCall.min_wait
                                  /\ SumOver(available_slots[d], elig) > 0}
       IN /\ days # {} => NewCall.day = MinOf(days)
          /\ NewCall.day # None =>
               NewCall.clinic \in elig /\ available_slots[NewCall.day][NewCall.clinic] > 0]_vars

\* the cells with a free slot that a find_slot(t, ...) of the booker may
\* return for patient pid: from t + min_wait on, with an eligible clinician
FreeCells(booker, pid, t, min_wait) ==
  LET pat == patients[pid]
      window == {d \in Days : d >= t + min_wait}
  IN CASE booker = "low" ->
            {x \in window \X {j \in Clinics : pooling_np[pat.home_clinic][j] = 1
                                                /\ available_caseload(j) > 0} :
               available_slots[x[1]][x[2]] > 0}
       [] booker = "high" ->
            {x \in window \X {j \in Clinics : pooling_np[pat.home_clinic][j] = 1} :
               carve_out_slots[x[1]][x[2]] + available_slots[x[1]][x[2]] > 0}
       [] booker = "repeat" ->
            {x \in window \X {pat.booked_clinic} : available_slots[x[1]][x[2]] > 0}

\* C12: capacity exhaustion is a fatal error, not a booking: when no
\* eligible cell has a free slot from t + min_wait to the end of the diary,
\* find_slot of every booker kind raises, no book_slot follows and available,
\* carve_out and bookings are unchanged.
C12_CapacityExhausted ==
  [][(Len(calls') = Len(calls) + 1
      /\ FreeCells(NewCall.booker, NewCall.pid, NewCall.t, NewCall.min_wait) = {}) =>
       /\ NewCall.day = None
       /\ UNCHANGED <<available_slots, carve_out_slots, bookings>>]_vars

\* C13: caseload is never negative: existing_caseload[c] >= 0 for every
\* clinician in every reachable state, from a non-negative initial caseload.
C13_CaseloadNonNegative ==
  \A c \in Clinics : existing_caseload[c] >= 0

\* the change (in units of 0.5) that the step of patient p may make to the
\* caseload of its booked clinic, according to the transition function
CaseloadDelta(p) ==
  LET pat == patients[p]
      pat1 == patients'[p]
      booked == pat.pc \in {"start", "leapfrog", "recheck"} /\ pat1.pc = "assessment"
      attended == pat.pc = "assessment" /\ pat1.pc # "assessment"
      departs == pat.pc # "done" /\ pat1.pc = "done"
      intensity == pat1.follow_up_intensity
  IN (IF booked /\ pat.priority = 1 THEN 2 ELSE 0)
     + (IF attended /\ intensity = 0 /\ pat.priority = 2 THEN -1
        ELSE IF attended /\ intensity = 1 /\ pat.priority = 1 THEN 1 ELSE 0)
     + (IF departs /\ intensity = 1 THEN -2
        ELSE IF departs /\ intensity = 0 THEN -1 ELSE 0)

AssessmentBooked == {k \in Booked : calls[k].booker \in {"low", "high"}}

\* C15: atomic find-and-book: the headroom check, find_slot and book_slot of
\* a pathway run in one step with no other process in between, so the cell
\* returned by a pooled booker's find_slot has a positive count in the pool
\* that book_slot decrements, and that pool loses exactly that one unit.
C15_AtomicFindAndBook ==
  [][(Len(calls') = Len(calls) + 1 /\ NewCall.booker \in {"low", "high"}
      /\ NewCall.day # None) =>
       LET d == NewCall.day
           c == NewCall.clinic
       IN /\ NewCall.now = now'
          /\ NewCall.pid = QueueHead.pid
          /\ bookings' = [bookings EXCEPT ![d][c] = @ + 1]
          /\ IF NewCall.pool = "carve_out"
             THEN /\ carve_out_slots[d][c] > 0
                  /\ carve_out_slots' = [carve_out_slots EXCEPT ![d][c] = @ - 1]
                  /\ available_slots' = available_slots
             ELSE /\ available_slots[d][c] > 0
                  /\ available_slots' = [available_slots EXCEPT ![d][c] = @ - 1]
                  /\ carve_out_slots' = carve_out_slots
          /\ NewCall.booker = "low" => available_caseload(c) > 0]_vars

\* C15 witness: two pathways booked the same cell at the same virtual time,
\* one after the other
C15_Witness ==
  \E j \in AssessmentBooked : \E k \in AssessmentBooked :
    /\ j < k
    /\ calls[j].pid # calls[k].pid
    /\ calls[j].now = calls[k].now
    /\ calls[j].day = calls[k].day
    /\ calls[j].clinic = calls[k].clinic

\* the records appended to the event log by this step
Appended == Len(event_log) + 1 .. Len(event_log')
AppendOnly ==
  /\ Len(event_log') >= Len(event_log)
  /\ \A k \in 1 .. Len(event_log) : event_log'[k] = event_log[k]

\* C16 (as claimed): the event log is append-only and ordered by virtual
\* time: a record appended earlier never carries a greater time than one
\* appended later.
C16_LogOrder ==
  [][/\ AppendOnly
     /\ \A k \in Appended : \A j \in 1 .. k - 1 :
          event_log'[j].time <= event_log'[k].time]_vars

\* the virtual time at which a record was appended: depart records are
\* stamped env.now + 1, every other record env.now
AppendedAt(rec) == IF rec.event = "depart" THEN rec.time - 1 ELSE rec.time

\* C16 (amended): the event log is append-only and in execution order: every
\* record is appended at the virtual time env.now and carries env.now as its
\* time, except depart records, which carry env.now + 1; so times never
\* decrease along the log once depart records are taken one day earlier.
C16_LogOrderOfAppends ==
  [][/\ AppendOnly
     /\ \A k \in Appended :
          /\ AppendedAt(event_log'[k]) = now'
          /\ \A j \in 1 .. k - 1 :
               AppendedAt(event_log'[j]) <= AppendedAt(event_log'[k])]_vars

\* C16 witness: the depart record of a patient who attended is followed in
\* the log by a record of another patient at an earlier time
C16_Witness ==
  \E j \in 1 .. Len(event_log) : \E k \in 1 .. Len(event_log) :
    /\ j < k
    /\ event_log[j].event = "depart" /\ event_log[j].pathway # 0
    /\ event_log[k].patient # event_log[j].patient
    /\ event_log[k].time < event_log[j].time

\* the log records of one kind, and those of one patient
RecordsOf(event) == {k \in 1 .. Len(event_log) : event_log[k].event = event}
RecordsOfPatient(event, pid) == {k \in RecordsOf(event) : event_log[k].patient = pid}

\* C17: arrivals within a day are processed in identifier order: the arrival
\* records of the referrals of one day appear in the log in increasing index,
\* whether the referral was accepted or referred out.
C17_ArrivalOrder ==
  \A j \in RecordsOf("arrival") : \A k \in RecordsOf("arrival") :
    (j < k /\ event_log[j].patient[1] = event_log[k].patient[1]) =>
      event_log[j].patient[2] < event_log[k].patient[2]

\* the identifiers that occur in the log
Logged == {event_log[k].patient : k \in 1 .. Len(event_log)}

\* C18: departs match arrivals: every patient has at most one arrival and at
\* most one depart record, every depart is preceded by the patient's
\* arrival, and a patient whose pathway ran to its end or who was referred
\* out has exactly one of each.
C18_DepartsMatchArrivals ==
  /\ \A pid \in Logged :
       /\ Cardinality(RecordsOfPatient("arrival", pid)) <= 1
       /\ Cardinality(RecordsOfPatient("depart", pid)) <= 1
       /\ \A k \in RecordsOfPatient("depart", pid) :
            \E j \in RecordsOfPatient("arrival", pid) : j < k
       /\ RecordsOfPatient("referred_out", pid) # {} =>
            /\ Cardinality(RecordsOfPatient("arrival", pid)) = 1
            /\ Cardinality(RecordsOfPatient("depart", pid)) = 1
  /\ \A p \in DOMAIN patients :
       /\ patients[p].pc = "done" =>
            /\ Cardinality(RecordsOfPatient("arrival", p)) = 1
            /\ Cardinality(RecordsOfPatient("depart", p)) = 1
       /\ patients[p].pc # "done" => RecordsOfPatient("depart", p) = {}

\* C18 witness: a patient was discharged after a follow-up, a referral was
\* referred out, and both have departed
C18_Witness ==
  /\ \E p \in DOMAIN patients :
       /\ patients[p].pc = "done" /\ patients[p].num_appts # None /\ patients[p].num_appts >= 1
       /\ RecordsOfPatient("depart", p) # {}
  /\ \E k \in RecordsOf("referred_out") :
       RecordsOfPatient("depart", event_log[k].patient) # {}

\* C19: the have_appointment records of a patient are in order: the
\* assessment first, then the follow-ups by index, with strictly increasing
\* times in log order.
C19_AppointmentsInOrder ==
  \A j \in HaveAppointments : \A k \in HaveAppointments :
    (j < k /\ event_log[j].patient = event_log[k].patient) =>
      /\ event_log[j].time < event_log[k].time
      /\ event_log[k].type = "follow-up"
      /\ event_log[j].type = "assessment" \/ event_log[j].follow_up < event_log[k].follow_up

\* C19 witness: a patient has attended the assessment and two follow-ups
C19_Witness ==
  \E k \in HaveAppointments : event_log[k].type = "follow-up" /\ event_log[k].follow_up = 1

\* the target interval of the follow-ups of a patient record
TargetInterval(pat) ==
  IF pat.follow_up_intensity = 1 THEN HIGH_INTENSITY_FOLLOW_UP_TARGET_INTERVAL
  ELSE LOW_INTENSITY_FOLLOW_UP_TARGET_INTERVAL

\* C20: follow-up cadence: every follow-up is booked with the clinician of
\* the patient's assessment, on the earliest day d >= now + (target - 1) on
\* which that clinician has available > 0 (target 7 for high intensity, 14
\* for low); the follow-up is attended on day d and its recorded interval is
\* at least target - 1.
C20_FollowUpCadence ==
  [][/\ (MadeCall("repeat") /\ NewCall.day # None) =>
          LET pat == patients'[NewCall.pid]
              clinic == patients[NewCall.pid].booked_clinic
              free == {d \in Days : d >= now' + TargetInterval(pat) - 1
                                     /\ available_slots[d][clinic] > 0}
          IN /\ NewCall.clinic = clinic
             /\ free # {}
             /\ NewCall.day = MinOf(free)
     /\ \A k \in Appended :
          (event_log'[k].event = "have_appointment" /\ event_log'[k].type = "follow-up") =>
            LET pat == patients[event_log'[k].patient]
            IN /\ event_log'[k].time = pat.best_t
               /\ event_log'[k].booked_clinic = pat.booked_clinic
               /\ event_log'[k].interval >= TargetInterval(pat) - 1]_vars

Results ==
  {referrals[k] : k \in {j \in 1 .. Len(referrals) : patients[referrals[j]].waiting_time # None}}

\* C22: warm-up retention: a pathway is in the results collection exactly
\* when its assessment was attended at a time greater than warm_up_period,
\* whenever it was referred.
C22_WarmUpRetention ==
  \A k \in HaveAppointments :
    event_log[k].type = "assessment" =>
      (event_log[k].patient \in Results <=> event_log[k].time > WARM_UP)

\* C23: run termination: the run ends, and it ends normally exactly when
\* virtual time reaches run_length: every step is taken while the run is on,
\* uses up an event id or ends the run, never moves time backwards or past
\* run_length, and leaves the until event scheduled while the run goes on.
\* Arrivals are generated only for the days 0 .. run_length - 1; no pathway
\* step and no change of the diaries or of the caseload happens at a time
\* >= run_length, and a pathway suspended at that point is never resumed.
C23_RunTermination ==
  [][/\ status = "running"
     /\ eid' > eid \/ status' # "running"
     /\ now <= now' /\ now' <= RunLength
     /\ status' = "running" => \E e \in queue' : e.kind = "stop" /\ e.time = RunLength
     /\ \A e \in queue' : e.time >= now'
     /\ status' = "stopped" <=> now' = RunLength
     /\ gen_t' # gen_t => (gen_t \in 0 .. RunLength - 1 /\ now' = gen_t)
     /\ now' >= RunLength =>
          UNCHANGED <<carve_out_slots, available_slots, bookings, existing_caseload,
                      patients, referrals, event_log, gen_t>>]_vars

\* C23 witness: the run has stopped at run_length with the arrivals of every
\* day generated and a pathway still suspended on a later event
C23_Witness ==
  /\ status = "stopped"
  /\ now = RunLength
  /\ gen_t = RunLength
  /\ \E p \in DOMAIN patients :
       /\ patients[p].pc \in {"assessment", "follow_up", "recheck"}
       /\ \E e \in queue : e.pid = p /\ e.time >= RunLength

\* C24: bookings[d, c] never decreases and always equals the number of
\* assessment and follow-up bookings placed on (d, c) so far: it starts at
\* zero with no booking made, a step that places a booking adds one to the
\* cell booked and to no other, and any other step leaves bookings unchanged.
C24_BookingsCount ==
  /\ bookings = create_bookings /\ calls = <<>>
  /\ [][IF Len(calls') = Len(calls) + 1 /\ NewCall.day # None
        THEN bookings' = [bookings EXCEPT ![NewCall.day][NewCall.clinic] = @ + 1]
        ELSE bookings' = bookings /\ Booked = {k \in 1 .. Len(calls') : calls'[k].day # None}]_vars

\* C24 witness: a cell holds two assessment bookings and a follow-up has
\* been booked as well
C24_Witness ==
  /\ \E k \in Booked : bookings[calls[k].day][calls[k].clinic] = 2
  /\ \E k \in Booked : calls[k].booker = "repeat"

\* C25: high priority patients bypass admission control: the
\* appointment_booked_waiting record of a priority-2 patient has the time of
\* its arrival record, whatever the caseload headroom; that of a priority-1
\* patient is at least one day after its arrival.
C25_HighPriorityBypass ==
  \A k \in RecordsOf("appointment_booked_waiting") :
    \E j \in RecordsOfPatient("arrival", event_log[k].patient) :
      /\ j < k
      /\ event_log[k].pathway = 2 => event_log[k].time = event_log[j].time
      /\ event_log[k].pathway = 1 => event_log[k].time >= event_log[j].time + 1

\* C25 witness: no clinician has headroom, a priority-2 patient has been
\* booked and a priority-1 patient is waiting in the admission loop
C25_Witness ==
  /\ clinicians_with_slots = 0
  /\ \E k \in RecordsOf("appointment_booked_waiting") : event_log[k].pathway = 2
  /\ \E p \in DOMAIN patients : patients[p].pc = "recheck"

\* C26: referred-out triage has no side effect on the shared store: a
\* referral that is referred out gets exactly three records (arrival at t,
\* referred_out at t, depart at t + 1), appended together by the arrivals
\* generator; no pathway is started for it, and the generator's step leaves
\* available, carve_out, bookings and the caseload unchanged.
C26_ReferredOut ==
  [][/\ \A k \in Appended :
          event_log'[k].event = "referred_out" =>
            LET pid == event_log'[k].patient
            IN /\ QueueHead.kind = "gen"
               /\ pid[1] = gen_t
               /\ k - 1 \in Appended /\ k + 1 \in Appended
               /\ event_log'[k - 1].patient = pid /\ event_log'[k - 1].event = "arrival"
               /\ event_log'[k - 1].time = now' /\ event_log'[k].time = now'
               /\ event_log'[k + 1].patient = pid /\ event_log'[k + 1].event = "depart"
               /\ event_log'[k + 1].time = now' + 1
               /\ pid \notin DOMAIN patients'
               /\ \A e \in queue' : e.pid # pid
     /\ \A k \in 1 .. Len(event_log) :
          (RecordsOfPatient("referred_out", event_log[k].patient) # {}) =>
            /\ Cardinality({j \in 1 .. Len(event_log) :
                              event_log[j].patient = event_log[k].patient}) = 3
            /\ \A j \in Appended : event_log'[j].patient # event_log[k].patient
     /\ (queue # {} /\ QueueHead.kind = "gen") =>
          UNCHANGED <<available_slots, carve_out_slots, bookings, existing_caseload, calls>>]_vars

\* C26 witness: on one day a referral was referred out and another one was
\* accepted and has been booked
C26_Witness ==
  \E k \in RecordsOf("referred_out") :
    \E p \in DOMAIN patients :
      /\ p[1] = event_log[k].patient[1]
      /\ patients[p].pc = "assessment"

\* C27: initial diary partition: as Scenario builds them (and until the
\* first booking), for every diary day d and clinic c carve_out[d, c] is
\* weekly_slots[d mod 5, c] * prop_carve_out rounded to the nearest integer,
\* available[d, c] is weekly_slots[d mod 5, c] less carve_out[d, c], both are
\* >= 0 and bookings[d, c] = 0.
C27_InitialPartition ==
  calls = <<>> =>
    \A d \in Days : \A c \in Clinics :
      LET slots == weekly_slots[d % 5][c]
          carve == carve_out_slots[d][c]
      IN /\ 100 * carve - slots * prop_carve_out \in -50 .. 50
         /\ available_slots[d][c] = slots - carve
         /\ carve >= 0 /\ available_slots[d][c] >= 0
         /\ bookings[d][c] = 0

\* C27 witness: a newly built diary in which rounding gives the whole of a
\* one-slot cell to the carve-out pool, on its last day too
C27_Witness ==
  /\ calls = <<>> /\ now = 0 /\ event_log = <<>>
  /\ \E c \in Clinics :
       LET d == DiaryRows(RunLength) - 1
       IN weekly_slots[d % 5][c] = 1 /\ carve_out_slots[d][c] = 1 /\ available_slots[d][c] = 0

\* C28: diary horizon: carve_out, available and bookings have the same day
\* rows, and their number is ceil(1.5 * run_length).
C28_DiaryHorizon ==
  /\ DOMAIN carve_out_slots = DOMAIN available_slots
  /\ DOMAIN available_slots = DOMAIN bookings
  /\ DOMAIN bookings = 0 .. ((3 * RunLength + 1) \div 2) - 1

\* the stage of the pathway that a log record stands for
Stage(rec) ==
  IF rec.event = "have_appointment" THEN <<rec.event, rec.type>> ELSE <<rec.event, "">>

\* the stages that may follow a stage in the log of one patient
NextStages(stage) ==
  CASE stage = <<"arrival", "">> -> {<<"waiting_appointment_to_be_scheduled", "">>}
    [] stage = <<"waiting_appointment_to_be_scheduled", "">> -> {<<"appointment_booked_waiting", "">>}
    [] stage = <<"appointment_booked_waiting", "">> -> {<<"have_appointment", "assessment">>}
    [] stage = <<"have_appointment", "assessment">> ->
         {<<"follow_up_appointment_booked_waiting", "">>, <<"depart", "">>}
    [] stage = <<"follow_up_appointment_booked_waiting", "">> -> {<<"have_appointment", "follow-up">>}
    [] stage = <<"have_appointment", "follow-up">> ->
         {<<"follow_up_appointment_booked_waiting", "">>, <<"depart", "">>}
    [] OTHER -> {}

\* the records of patient pid, in log order
PatientLog(pid) ==
  LET OfPatient(rec) == rec.patient = pid
  IN SelectSeq(event_log, OfPatient)

\* C29: pathway state machine: the log records of an accepted patient are, in
\* order, arrival, waiting_appointment_to_be_scheduled,
\* appointment_booked_waiting, have_appointment (assessment), any number of
\* pairs follow_up_appointment_booked_waiting, have_appointment (follow-up),
\* and depart; no stage is skipped and nothing follows depart.
C29_PathwayStateMachine ==
  \A p \in DOMAIN patients :
    LET log == PatientLog(p)
    IN /\ log # <<>> => Stage(log[1]) = <<"arrival", "">>
       /\ \A k \in 1 .. Len(log) - 1 : Stage(log[k + 1]) \in NextStages(Stage(log[k]))
       /\ patients[p].pc = "done" => (log # <<>> /\ Stage(log[Len(log)]) = <<"depart", "">>)

\* C29 witness: a patient has gone through every stage, with two follow-ups
C29_Witness ==
  \E p \in DOMAIN patients :
    /\ patients[p].pc = "done"
    /\ Len(PatientLog(p)) = 9

\* C30: follow-up count: a patient who departs after being sampled as needing
\* follow-ups has exactly follow_ups_intended have_appointment records of
\* type follow-up, with indices 0 .. n - 1 in order, and one booking call
\* each; with n = 0 it has none, but its intensity was sampled and the
\* caseload reconciliation and discharge decrement are applied.
C30_FollowUpCount ==
  [][\A p \in DOMAIN patients :
       (patients[p].pc # "done" /\ patients'[p].pc = "done"
        /\ patients'[p].follow_up_intensity # None) =>
         LET pat == patients'[p]
             n == pat.num_appts
             seen == {k \in 1 .. Len(event_log') :
                        /\ event_log'[k].patient = p
                        /\ event_log'[k].event = "have_appointment"
                        /\ event_log'[k].type = "follow-up"}
         IN /\ pat.follow_up_intensity \in {0, 1}
            /\ Cardinality(seen) = n
            /\ {event_log'[k].follow_up : k \in seen} = 0 .. n - 1
            /\ \A j \in seen : \A k \in seen :
                 j < k => event_log'[j].follow_up < event_log'[k].follow_up
            /\ \A k \in seen : event_log'[k].follow_ups_intended = n
            /\ Cardinality({k \in 1 .. Len(calls') :
                              calls'[k].pid = p /\ calls'[k].booker = "repeat"}) = n
            /\ n = 0 =>
                 existing_caseload' =
                   [existing_caseload EXCEPT ![pat.booked_clinic] =
                      @ + (IF pat.follow_up_intensity = 0 /\ pat.priority = 2 THEN -1
                           ELSE IF pat.follow_up_intensity = 1 /\ pat.priority = 1 THEN 1
                           ELSE 0)
                        - (IF pat.follow_up_intensity = 1 THEN 2 ELSE 1)]]_vars

\* C30 witness: one patient has departed after two follow-ups and another
\* one after being sampled for follow-ups with none to attend
C30_Witness ==
  /\ \E p \in DOMAIN patients : patients[p].pc = "done" /\ patients[p].num_appts = 2
  /\ \E p \in DOMAIN patients :
       /\ patients[p].pc = "done" /\ patients[p].num_appts = 0
       /\ patients[p].follow_up_intensity \in {0, 1}

\* the events scheduled for the process of patient p
EventsOf(p, q) == {e \in q : e.pid = p}

\* C31: admission-control loop progress: a priority-1 patient whose first
\* check found no clinician with headroom has one re-check pending, one day
\* after its last check; a check that finds no headroom books nothing and
\* schedules the next re-check a day later, and the first re-check at which
\* some clinician has headroom books the assessment.
C31_AdmissionLoopProgress ==
  [][\A p \in DOMAIN patients :
       /\ (patients[p].pc = "leapfrog" /\ patients'[p].pc = "recheck") =>
            /\ clinicians_with_slots = 0
            /\ calls' = calls
            /\ EventsOf(p, queue') = {Event(now' + 1, NORMAL, eid, "timeout", p)}
       /\ patients[p].pc = "recheck" =>
            /\ patients[p].priority = 1
            /\ Cardinality(EventsOf(p, queue)) = 1
            /\ \A e \in EventsOf(p, queue) : e.time <= now + 1
            /\ EventsOf(p, queue') # EventsOf(p, queue) =>
                 /\ \A e \in EventsOf(p, queue) : e.time = now'
                 /\ IF clinicians_with_slots = 0
                    THEN /\ patients'[p].pc = "recheck"
                         /\ calls' = calls
                         /\ UNCHANGED <<available_slots, carve_out_slots, bookings>>
                         /\ EventsOf(p, queue') = {Event(now' + 1, NORMAL, eid, "timeout", p)}
                    ELSE /\ MadeCall("low")
                         /\ NewCall.pid = p
                         /\ NewCall.day # None
                         /\ patients'[p].pc = "assessment"]_vars

\* C32: the temporary min_wait decrement is private and bounded: the
\* min_wait of a LowPriorityPooledBooker is 6 or 7; it is 7 whenever its
\* pathway is suspended before the first check or inside the admission loop;
\* it is changed only in a step of its own pathway, and every find_slot call
\* of a pathway uses the min_wait of that pathway's own booker.
C32_PrivateMinWait ==
  /\ [](\A p \in DOMAIN patients :
          patients[p].priority = 1 =>
            /\ patients[p].min_wait \in {LOW_PRIORITY_MIN_WAIT - 1, LOW_PRIORITY_MIN_WAIT}
            /\ patients[p].pc \in {"start", "leapfrog", "recheck"} =>
                 patients[p].min_wait = LOW_PRIORITY_MIN_WAIT)
  /\ [][/\ \A p \in DOMAIN patients :
            patients'[p].min_wait # patients[p].min_wait => QueueHead.pid = p
        /\ MadeCall("low") =>
            /\ NewCall.pid = QueueHead.pid
            /\ NewCall.min_wait = patients'[NewCall.pid].min_wait
            /\ NewCall.min_wait =
                 (IF patients[NewCall.pid].pc = "leapfrog"
                  THEN patients[NewCall.pid].min_wait - 1
                  ELSE patients[NewCall.pid].min_wait)]_vars

\* C32 witness: a priority-1 patient has booked after waiting in the
\* admission loop, with min_wait back at 7, while another low priority
\* booker exists
C32_Witness ==
  /\ \E k \in Booked :
       /\ calls[k].booker = "low"
       /\ calls[k].min_wait = LOW_PRIORITY_MIN_WAIT
       /\ calls[k].now > ReferralT(calls[k].pid) + 1
  /\ Cardinality(DOMAIN patients) = 2

\* C33: earliest-slot search of LowPriorityPooledBooker: in every reachable
\* diary state, follow-up bookings included, find_slot returns the earliest
\* day of its window on which at least one eligible clinician has a free
\* public slot, with a clinician that has one on that day.
C33_EarliestSlot ==
  [][(MadeCall("low") /\ NewCall.day # None) =>
       LET elig == masked_options(patients[NewCall.pid].home_clinic, clinic_mask)
           days == {d \in Days : /\ d >= NewCall.t + NewCall.min_wait
                                  /\ \E j \in elig : available_slots[d][j] > 0}
       IN /\ NewCall.day = MinOf(days)
          /\ NewCall.clinic \in elig
          /\ available_slots[NewCall.day][NewCall.clinic] > 0]_vars

\* the caseload tables the run may have started from, given its other tables
InitialCaseloads ==
  {s.caseload : s \in {x \in Scenarios : /\ x.shifts = weekly_slots
                                          /\ x.pooling = pooling_np
                                          /\ x.prop = prop_carve_out}}

\* C34: caseload is fully released on discharge: the changes a pathway makes
\* to the caseload of its booked clinician (booking increment,
\* reconciliation, discharge decrement) sum to zero for a patient sampled as
\* needing follow-ups; so when every patient so far was sampled for
\* follow-ups and has departed, the caseload is the initial one.
C34_CaseloadReleased ==
  (/\ DOMAIN patients # {}
   /\ \A p \in DOMAIN patients :
        patients[p].pc = "done" /\ patients[p].follow_up_intensity # None)
    => existing_caseload \in InitialCaseloads

\* C35: whenever the admission check of a priority-1 patient reports at
\* least one clinician with headroom, the set of clinicians pooled with the
\* home clinic that have headroom is not empty, for any pooling matrix, so
\* the slot search is never run over an empty set of clinicians.
C35_EligibleSetNotEmpty ==
  \A p \in DOMAIN patients :
    (AtHead(p) /\ patients[p].pc \in {"leapfrog", "recheck"} /\ clinicians_with_slots > 0) =>
      {j \in pooled_clinics(patients[p].home_clinic) : clinic_mask[j]} # {}

\* C36: no booking in the past: at every book_slot call (assessment of
\* either priority, at the first attempt or after waiting, and every
\* follow-up) the booked day is later than the current virtual time and is
\* a row of the diary; the booking is counted in that row.
C36_NoBookingInThePast ==
  [][(Len(calls') = Len(calls) + 1 /\ NewCall.day # None) =>
       /\ NewCall.now = now'
       /\ NewCall.day > now'
       /\ NewCall.day \in DOMAIN bookings
       /\ bookings'[NewCall.day][NewCall.clinic] = bookings[NewCall.day][NewCall.clinic] + 1]_vars

\* C36 witness: a high priority assessment, a follow-up and a low priority
\* assessment after waiting in the admission loop have been booked
C36_Witness ==
  /\ \E k \in Booked : calls[k].booker = "high"
  /\ \E k \in Booked : calls[k].booker = "repeat"
  /\ \E k \in Booked : /\ calls[k].booker = "low"
                       /\ calls[k].t > ReferralT(calls[k].pid)

\* C37: find_slot is read-only: a step in which a booker's find_slot is
\* called changes the diaries only through the book_slot that follows it,
\* by one unit in the returned cell, and not at all when find_slot fails;
\* the caseload changes only by the pathway's own adjustments, and the
\* booker's min_wait after the call is the one the call was made with.
C37_FindSlotReadOnly ==
  [][Len(calls') = Len(calls) + 1 =>
       LET pid == NewCall.pid
       IN /\ NewCall.day = None =>
               UNCHANGED <<available_slots, carve_out_slots, bookings>>
          /\ NewCall.day # None =>
               \A d \in Days : \A c \in Clinics :
                 IF d = NewCall.day /\ c = NewCall.clinic
                 THEN /\ bookings'[d][c] = bookings[d][c] + 1
                      /\ available_slots'[d][c] + carve_out_slots'[d][c]
                           = available_slots[d][c] + carve_out_slots[d][c] - 1
                 ELSE /\ bookings'[d][c] = bookings[d][c]
                      /\ available_slots'[d][c] = available_slots[d][c]
                      /\ carve_out_slots'[d][c] = carve_out_slots[d][c]
          /\ existing_caseload' =
               [c \in Clinics |->
                  existing_caseload[c]
                  + (IF c = patients'[pid].booked_clinic THEN CaseloadDelta(pid) ELSE 0)]
          /\ NewCall.booker \in {"low", "high"} =>
               patients'[pid].min_wait = NewCall.min_wait
          /\ NewCall.booker = "repeat" =>
               /\ patients'[pid].min_wait = patients[pid].min_wait
               /\ NewCall.min_wait = repeat_min_wait(patients'[pid].follow_up_intensity)]_vars

\* C37 witness: the find_slot of a pooled booker has failed after a booking
\* of a high priority assessment and of a follow-up
C37_Witness ==
  /\ \E k \in 1 .. Len(calls) : calls[k].day = None /\ calls[k].booker = "low"
  /\ \E k \in Booked : calls[k].booker = "high"
  /\ \E k \in Booked : calls[k].booker = "repeat"

====
